---------------------------- MODULE Spec2Model ----------------------------
(***************************************************************************)
(* CardGuard: the card-number validation pipeline of src/src/validator.cpp *)
(* (normalize_input, detect_issuer, luhn_check, calculate_entropy,         *)
(* repetition_check_optimized, validate_card) and the standalone Luhn      *)
(* program of src/main.cpp.                                                *)
(*                                                                         *)
(* A std::string is a sequence of character codes (ASCII), so that the     *)
(* code's arithmetic on characters (c - '0', table[c]) is modelled as it   *)
(* is written.  A double holding an entropy is a fixed-point integer in    *)
(* micro-bits (1 bit = 1000000).  std::cout is the sequence of the lines   *)
(* printed, each line reduced to a tag.                                    *)
(***************************************************************************)
EXTENDS Integers, Sequences, FiniteSets, TLC

VARIABLES input, op, out, calls, res, prev, mem, log

vars == <<input, op, out, calls, res, prev, mem, log>>

(***************************************************************************)
(* Bounds of the explored inputs.                                          *)
(***************************************************************************)
\* all digit strings up to this length are explored
MaxShortLen == 4
\* all strings over the digits 1,2,3 up to this length are explored
MaxTernLen == 8
\* longest digit string derived from a fixture or from one repeated digit
MaxInputLen == 21
\* number of successive validate_card calls on one input
MaxCalls == 2

(***************************************************************************)
(* Characters.                                                             *)
(***************************************************************************)
Digits == 48..57
\* ' ', '-', 'a'
NonDigits == {32, 45, 97}
Chars == Digits \cup NonDigits

\* the string of a tuple of digit values
Str(ds) == [i \in 1..Len(ds) |-> ds[i] + 48]

isdigit(c) == c \in 48..57

(***************************************************************************)
(* normalize_input                                                         *)
(***************************************************************************)
\* "Invalid credit card number"
InvalidMsg ==
  <<73, 110, 118, 97, 108, 105, 100, 32, 99, 114, 101, 100, 105, 116, 32,
    99, 97, 114, 100, 32, 110, 117, 109, 98, 101, 114>>

\* the variant that drops every non-digit character and keeps the rest
normalize_input_strip(s) == SelectSeq(s, isdigit)

normalize_input(s) ==
  IF \E i \in 1..Len(s) : ~isdigit(s[i]) THEN InvalidMsg ELSE s

(***************************************************************************)
(* detect_issuer                                                           *)
(***************************************************************************)
lookup_swapped ==
  [c \in 0..255 |-> IF c = 52 THEN "MASTERCARD"
                    ELSE IF c = 53 THEN "VISA" ELSE "UNKNOWN"]

lookup ==
  [c \in 0..255 |-> IF c = 52 THEN "VISA"
                    ELSE IF c = 53 THEN "MASTERCARD" ELSE "UNKNOWN"]

detect_issuer(number) ==
  LET index == IF Len(number) = 0 THEN 0 ELSE number[1]
  IN  lookup[index]

(***************************************************************************)
(* luhn_check                                                              *)
(***************************************************************************)
\* one iteration of the reverse loop at position k (k = 0: rend reached)
RECURSIVE luhn_loop(_, _, _, _)
luhn_loop(number, k, sum, double_digit) ==
  IF k = 0 THEN sum
  ELSE LET d0 == number[k] - 48
           d1 == IF double_digit THEN 2 * d0 ELSE d0
           d2 == IF double_digit /\ d1 > 9 THEN d1 - 9 ELSE d1
       IN  luhn_loop(number, k - 1, sum + d2, ~double_digit)

\* the flag starts set: the doubling begins at the last digit
luhn_check_first_doubled(number) ==
  luhn_loop(number, Len(number), 0, TRUE) % 10 = 0

luhn_check(number) ==
  luhn_loop(number, Len(number), 0, FALSE) % 10 = 0

(***************************************************************************)
(* main.cpp: the standalone Luhn program                                   *)
(***************************************************************************)
getDigit(number) ==
  IF number < 10 THEN number ELSE (number % 10) + (number \div 10)

RECURSIVE sumOddFrom(_, _)
sumOddFrom(cardNumber, i) ==
  IF i >= 0 THEN getDigit(cardNumber[i + 1] - 48) + sumOddFrom(cardNumber, i - 2)
  ELSE 0

sumOddDigits(cardNumber) == sumOddFrom(cardNumber, Len(cardNumber) - 1)

RECURSIVE sumEvenFrom(_, _)
sumEvenFrom(cardNumber, i) ==
  IF i >= 0 THEN getDigit((cardNumber[i + 1] - 48) * 2) + sumEvenFrom(cardNumber, i - 2)
  ELSE 0

sumEvenDigits(cardNumber) == sumEvenFrom(cardNumber, Len(cardNumber) - 2)

\* std::cin >> cardNumber: skip leading white space, read up to the next
RECURSIVE SkipSpaces(_)
SkipSpaces(s) ==
  IF Len(s) > 0 /\ s[1] = 32 THEN SkipSpaces(Tail(s)) ELSE s

RECURSIVE TakeToken(_)
TakeToken(s) ==
  IF Len(s) > 0 /\ s[1] # 32 THEN <<s[1]>> \o TakeToken(Tail(s)) ELSE <<>>

ReadToken(s) == TakeToken(SkipSpaces(s))

\* TRUE: "This is a valid credit card number."
main(stdin) ==
  LET cardNumber == ReadToken(stdin)
      result == sumEvenDigits(cardNumber) + sumOddDigits(cardNumber)
  IN  result % 10 = 0

(***************************************************************************)
(* calculate_entropy                                                       *)
(***************************************************************************)
\* log2(n) in micro-bits, rounded down, n = 1..32
Log2Micro ==
  <<0, 1000000, 1584962, 2000000, 2321928, 2584962, 2807354, 3000000,
    3169925, 3321928, 3459431, 3584962, 3700439, 3807354, 3906890, 4000000,
    4087462, 4169925, 4247927, 4321928, 4392317, 4459431, 4523561, 4584962,
    4643856, 4700439, 4754887, 4807354, 4857980, 4906890, 4954196, 5000000>>

\* freq[c] of the unordered_map after the counting loop
freq(number, c) == Cardinality({i \in 1..Len(number) : number[i] = c})

\* the variant that takes the logarithm of the count: -p * log2(v)
entropy_term_of_count(v, len) == 0 - ((v * Log2Micro[v]) \div len)

\* -p * log2(p) for p = v / len, with log2(v / len) = log2(v) - log2(len)
entropy_term(v, len) == (v * (Log2Micro[len] - Log2Micro[v])) \div len

RECURSIVE entropy_sum(_, _, _)
entropy_sum(number, keys, entropy) ==
  IF keys = {} THEN entropy
  ELSE LET k == CHOOSE c \in keys : TRUE
       IN  entropy_sum(number, keys \ {k},
                       entropy + entropy_term(freq(number, k), Len(number)))

calculate_entropy(number) ==
  entropy_sum(number, {number[i] : i \in 1..Len(number)}, 0)

(***************************************************************************)
(* repetition_check_optimized                                              *)
(***************************************************************************)
substr(number, pos, len) == SubSeq(number, pos + 1, pos + len)

\* the inner loop from start i: TRUE when it reaches the `return false`
RECURSIVE rep_inner(_, _, _)
rep_inner(number, len, i) ==
  IF i + 2 * len <= Len(number)
  THEN IF substr(number, i, len) = substr(number, i + len, len) THEN TRUE
       ELSE rep_inner(number, len, i + 1)
  ELSE FALSE

\* the outer loop from pattern length len
RECURSIVE rep_outer(_, _)
rep_outer(number, len) ==
  IF len <= Len(number) \div 2
  THEN IF rep_inner(number, len, 0) THEN FALSE
       ELSE rep_outer(number, len + 1)
  ELSE TRUE

\* the variant that only looks for a character followed by itself
repetition_check_single_char(number) ==
  ~ rep_inner(number, 1, 0)

repetition_check_optimized(number) == rep_outer(number, 1)

\* repetition_check, the scanner validate_card calls (section 4.5 of the
\* specification): TRUE iff no two adjacent equal blocks exist
repetition_check(number) ==
  ~ \E len \in 1..(Len(number) \div 2) :
      \E i \in 0..(Len(number) - 2 * len) :
         \A j \in 1..len : number[i + j] = number[i + len + j]

(***************************************************************************)
(* validate_card                                                           *)
(***************************************************************************)
MinLength == 13
MaxLength == 19
\* 3.5 bits/digit
EntropyThreshold == 3500000

\* the gate that lets a 20-character string through
length_check_failed_wide(normalized) ==
  Len(normalized) < MinLength \/ Len(normalized) > MaxLength + 1

length_check_failed(normalized) ==
  Len(normalized) < MinLength \/ Len(normalized) > MaxLength

\* the comparison turned around
entropy_pass_flipped(entropy) == entropy <= EntropyThreshold

entropy_pass(entropy) == entropy >= EntropyThreshold

\* the verdict that demands all three signals
combine_strict(luhn_pass, e_pass, repetition_pass) ==
  IF luhn_pass /\ e_pass /\ repetition_pass
  THEN [valid |-> TRUE, line |-> "VALID"]
  ELSE [valid |-> FALSE, line |-> "INVALID"]

\* the if / else if / else chain that sets res.valid and prints [RESULT]
combine(luhn_pass, e_pass, repetition_pass) ==
  IF luhn_pass /\ e_pass /\ repetition_pass
  THEN [valid |-> TRUE, line |-> "VALID"]
  ELSE IF luhn_pass
       THEN [valid |-> TRUE, line |-> "VALID (low confidence)"]
       ELSE [valid |-> FALSE, line |-> "INVALID"]

PassFail(b) == IF b THEN "PASS" ELSE "FAIL"

\* what `CardResult res;` holds before any assignment: the std::string is
\* empty, the bool and double members hold whatever the storage held
Indeterminate ==
  [luhn_pass : BOOLEAN, entropy : {0, 4000000}, repetition_pass : BOOLEAN]

\* the result returned and the lines printed, uninit being the storage of res
validate_card(inp, uninit) ==
  LET normalized == normalize_input(inp)
      res0 == [valid |-> FALSE, luhn_pass |-> uninit.luhn_pass,
               entropy |-> uninit.entropy,
               repetition_pass |-> uninit.repetition_pass, issuer |-> ""]
  IN  IF length_check_failed(normalized)
      THEN [res |-> [res0 EXCEPT !.valid = FALSE],
            log |-> <<"Input normalized", "Length check failed">>]
      ELSE LET issuer == detect_issuer(normalized)
               luhn == luhn_check(normalized)
               entropy == calculate_entropy(normalized)
               e_pass == entropy_pass(entropy)
               rep == repetition_check(normalized)
               verdict == combine(luhn, e_pass, rep)
           IN  [res |-> [valid |-> verdict.valid, luhn_pass |-> luhn,
                         entropy |-> entropy, repetition_pass |-> rep,
                         issuer |-> issuer],
                log |-> <<"Input normalized", "Length check passed",
                          "Issuer", "Luhn " \o PassFail(luhn),
                          "Entropy " \o PassFail(e_pass),
                          "Repetition " \o PassFail(rep),
                          verdict.line, "TIME">>]

(***************************************************************************)
(* The inputs explored.                                                    *)
(***************************************************************************)
Fixtures ==
  { Str(<<4,5,3,2,0,1,5,1,1,2,8,3,0,3,6,6>>),
    Str(<<4,5,3,2,0,1,5,1,1,2,8,3,0,3,6,7>>),
    Str(<<4,1,1,1,1,1,1,1,1,1,1,1,1,1,1,1>>),
    Str(<<5,5,0,0,0,0,0,0,0,0,0,0,0,0,0,4>>),
    Str(<<1,2,3,4,5,6,7,8,9,0,1,2,3>>),
    Str(<<1,2,1,2,1,2,1,2,1,2,1,2,1>>),
    Str(<<4,4,4,4,4,4,4,4,4,4,4,4,4>>) }

ShortDigitStrings == UNION { [1..n -> Digits] : n \in 0..MaxShortLen }

TernaryStrings == UNION { [1..n -> 49..51] : n \in 0..MaxTernLen }

RepDigitStrings == { [i \in 1..n |-> d] : d \in Digits, n \in 0..MaxInputLen }

\* the first n characters of a fixture written twice
Prefixes == { SubSeq(f \o f, 1, n) : f \in Fixtures, n \in 0..MaxInputLen }

\* a fixture with one character replaced
Replaced ==
  UNION { { [f EXCEPT ![i] = c] : i \in 1..Len(f), c \in Chars } : f \in Fixtures }

\* a fixture with one space or dash inserted
Inserted ==
  UNION { { SubSeq(f, 1, i) \o <<c>> \o SubSeq(f, i + 1, Len(f)) :
              i \in 0..Len(f), c \in {32, 45} } : f \in Fixtures }

\* a fixture written in groups of four separated by c
RECURSIVE Group4(_, _)
Group4(s, c) ==
  IF Len(s) <= 4 THEN s
  ELSE SubSeq(s, 1, 4) \o <<c>> \o Group4(SubSeq(s, 5, Len(s)), c)

Grouped == { Group4(f, c) : f \in Fixtures, c \in {32, 45} }

Inputs ==
  Fixtures \cup ShortDigitStrings \cup TernaryStrings \cup RepDigitStrings
    \cup Prefixes \cup Replaced \cup Inserted \cup Grouped

(***************************************************************************)
(* State: one run on one input.  Either one of the functions is applied to *)
(* the input (op names it, out is what it returned), or validate_card is   *)
(* called on it up to MaxCalls times (res is the last result, prev the one *)
(* before, mem the storage res was built in, log the lines printed).       *)
(***************************************************************************)
NoResult ==
  [valid |-> FALSE, luhn_pass |-> FALSE, entropy |-> 0,
   repetition_pass |-> FALSE, issuer |-> ""]

NoMem == [luhn_pass |-> FALSE, entropy |-> 0, repetition_pass |-> FALSE]

Init ==
  /\ input \in Inputs
  /\ op = "none"
  /\ out = "none"
  /\ calls = 0
  /\ res = NoResult
  /\ prev = NoResult
  /\ mem = NoMem
  /\ log = <<>>

Apply(name, value) ==
  /\ op = "none"
  /\ op' = name
  /\ out' = value
  /\ UNCHANGED <<input, calls, res, prev, mem, log>>

NormalizeInput == Apply("normalize_input", normalize_input(input))

DetectIssuer == Apply("detect_issuer", detect_issuer(input))

LuhnCheck == Apply("luhn_check", luhn_check(input))

CalculateEntropy == Apply("calculate_entropy", calculate_entropy(input))

RepetitionCheck ==
  Apply("repetition_check_optimized", repetition_check_optimized(input))

Main == Apply("main", main(input))

ValidateCard ==
  /\ op \in {"none", "validate_card"}
  /\ calls < MaxCalls
  /\ \E uninit \in Indeterminate :
        LET r == validate_card(input, uninit)
        IN  /\ res' = r.res
            /\ log' = r.log
            /\ mem' = uninit
  /\ prev' = res
  /\ calls' = calls + 1
  /\ op' = "validate_card"
  /\ UNCHANGED <<input, out>>

Next ==
  \/ NormalizeInput
  \/ DetectIssuer
  \/ LuhnCheck
  \/ CalculateEntropy
  \/ RepetitionCheck
  \/ Main
  \/ ValidateCard

Spec == Init /\ [][Next]_vars

(***************************************************************************)
(* Properties.                                                             *)
(***************************************************************************)
AllDigits(s) == \A i \in 1..Len(s) : s[i] \in Digits

Called == op = "validate_card" /\ calls > 0

\* the normalized input has 13..19 characters
PassesLengthGate ==
  /\ Len(normalize_input(input)) >= MinLength
  /\ Len(normalize_input(input)) <= MaxLength

\* the lines printed by a call that stops at the length gate
GateFailLog == <<"Input normalized", "Length check failed">>

\* no member of res other than valid was assigned by the last call
NothingComputed ==
  /\ res.issuer = ""
  /\ res.luhn_pass = mem.luhn_pass
  /\ res.entropy = mem.entropy
  /\ res.repetition_pass = mem.repetition_pass

\* C1: a digit-only input shorter than 13 or longer than 19 (the empty one
\* included) is returned with valid = false from the length gate, before
\* any stage runs: only the two gate lines are printed and issuer,
\* luhn_pass, entropy, repetition_pass are left as they were.
C1_ShortCircuit ==
  (Called /\ AllDigits(input) /\ (Len(input) < 13 \/ Len(input) > 19))
    => (res.valid = FALSE /\ log = GateFailLog /\ NothingComputed)

C1_Witness ==
  /\ Called /\ AllDigits(input) /\ Len(input) = 20
  /\ res.valid = FALSE /\ log = GateFailLog
  /\ mem.luhn_pass /\ res.luhn_pass

\* C2: past the length gate, valid is true exactly when luhn_pass is,
\* whatever the entropy test and the repetition scan say.
C2_ValidIffLuhn ==
  (Called /\ PassesLengthGate) => (res.valid <=> res.luhn_pass)

C2_Witness ==
  /\ Called /\ PassesLengthGate
  /\ res.luhn_pass /\ res.valid
  /\ ~res.repetition_pass /\ log[5] = "Entropy FAIL"

LuhnWeight(s, i) ==
  LET d == s[i] - 48
      p == Len(s) - i + 1
  IN  IF p % 2 = 1 THEN d
      ELSE IF 2 * d > 9 THEN 2 * d - 9 ELSE 2 * d

RECURSIVE LuhnSum(_, _)
LuhnSum(s, n) == IF n = 0 THEN 0 ELSE LuhnWeight(s, n) + LuhnSum(s, n - 1)

CanonicalLuhn(s) == LuhnSum(s, Len(s)) % 10 = 0

\* C4: on a non-empty digit string luhn_check returns true exactly when
\* the canonical Luhn sum is divisible by 10, the program of main.cpp
\* gives the same verdict, 4532015112830366 passes and 4532015112830367
\* fails.
C4_LuhnCanonical ==
  (AllDigits(input) /\ Len(input) > 0) =>
    /\ op = "luhn_check" => (out <=> CanonicalLuhn(input))
    /\ op = "main" => (out <=> CanonicalLuhn(input))
    /\ (op \in {"luhn_check", "main"}
          /\ input = Str(<<4,5,3,2,0,1,5,1,1,2,8,3,0,3,6,6>>)) => out = TRUE
    /\ (op \in {"luhn_check", "main"}
          /\ input = Str(<<4,5,3,2,0,1,5,1,1,2,8,3,0,3,6,7>>)) => out = FALSE

C4_Witness ==
  /\ op = "luhn_check"
  /\ input = Str(<<4,5,3,2,0,1,5,1,1,2,8,3,0,3,6,6>>)
  /\ out = TRUE

\* two adjacent equal blocks: [i, i+len) = [i+len, i+2*len)
HasAdjacentRepeat(s) ==
  \E len \in 1..(Len(s) \div 2) :
    \E i \in 0..Len(s) :
      /\ i + 2 * len <= Len(s)
      /\ SubSeq(s, i + 1, i + len) = SubSeq(s, i + len + 1, i + 2 * len)

\* C5: on a digit string the repetition scan returns false exactly when
\* two adjacent equal blocks exist; it returns false for 1212121212121 and
\* 4444444444444, true for 1234567890123; repetition_pass of validate_card
\* is this result.
C5_RepetitionScan ==
  AllDigits(input) =>
    /\ op = "repetition_check_optimized" =>
         /\ out = FALSE <=> HasAdjacentRepeat(input)
         /\ input = Str(<<1,2,1,2,1,2,1,2,1,2,1,2,1>>) => out = FALSE
         /\ input = Str(<<4,4,4,4,4,4,4,4,4,4,4,4,4>>) => out = FALSE
         /\ input = Str(<<1,2,3,4,5,6,7,8,9,0,1,2,3>>) => out = TRUE
    /\ (Called /\ PassesLengthGate) =>
         (res.repetition_pass = repetition_check_optimized(input))

C5_Witness ==
  /\ op = "repetition_check_optimized"
  /\ input = Str(<<1,2,1,2,1,2,1,2,1,2,1,2,1>>)
  /\ out = FALSE

\* C6: past the length gate the issuer is VISA for a first digit 4,
\* MASTERCARD for a first digit 5 and UNKNOWN for any other; only the first
\* character matters; detect_issuer of the empty string is UNKNOWN.
C6_Issuer ==
  /\ (Called /\ PassesLengthGate) =>
       res.issuer = (IF input[1] = 52 THEN "VISA"
                     ELSE IF input[1] = 53 THEN "MASTERCARD" ELSE "UNKNOWN")
  /\ (op = "detect_issuer" /\ input = <<>>) => out = "UNKNOWN"

C6_Witness ==
  /\ Called /\ PassesLengthGate
  /\ input[1] = 53 /\ res.issuer = "MASTERCARD"

\* C7: two calls of validate_card on the same input return the same value
\* in every member of CardResult, inputs failing the length gate included.
C7_Idempotent == calls >= 2 => res = prev

\* one digit repeated 13..19 times
RepDigit(s) ==
  /\ Len(s) >= 13 /\ Len(s) <= 19
  /\ AllDigits(s)
  /\ \A i \in 1..Len(s) : s[i] = s[1]

\* C8: for one digit repeated 13..19 times validate_card reports
\* repetition_pass = false, entropy exactly 0 (the entropy test fails) and
\* valid = luhn_pass; when Luhn passes the input is VALID (low confidence).
C8_AllSameDigit ==
  (Called /\ RepDigit(input)) =>
    /\ res.repetition_pass = FALSE
    /\ res.entropy = 0
    /\ log[5] = "Entropy FAIL"
    /\ res.valid <=> res.luhn_pass
    /\ res.valid => log[7] = "VALID (low confidence)"

C8_Witness ==
  /\ Called /\ RepDigit(input) /\ input[1] # 48
  /\ res.luhn_pass /\ res.valid
  /\ ~res.repetition_pass /\ res.entropy = 0
  /\ log[7] = "VALID (low confidence)"

\* the input without its spaces and dashes
StripSeparators(s) == SelectSeq(s, LAMBDA c : c \notin {32, 45})

\* C9: validate_card removes spaces and dashes first: an input made of a
\* digit string d of length 13..19 with spaces or dashes inserted gets the
\* result d gets.
C9_SeparatorsRemoved ==
  (/\ Called
   /\ StripSeparators(input) # input
   /\ AllDigits(StripSeparators(input))
   /\ Len(StripSeparators(input)) >= 13
   /\ Len(StripSeparators(input)) <= 19)
    => res = validate_card(StripSeparators(input), mem).res

\* C10: past the length gate the entropy lies in [0, log2(10)] and below
\* the threshold 3.5, the entropy test fails, the full-confidence branch
\* is not taken and every valid result is VALID (low confidence).
C10_EntropyBelowThreshold ==
  (Called /\ PassesLengthGate) =>
    /\ res.entropy >= 0
    /\ res.entropy <= Log2Micro[10]
    /\ res.entropy < EntropyThreshold
    /\ log[5] = "Entropy FAIL"
    /\ log[7] # "VALID"
    /\ res.valid => log[7] = "VALID (low confidence)"

C10_Witness ==
  /\ Called /\ PassesLengthGate
  /\ res.valid /\ res.luhn_pass /\ res.repetition_pass
  /\ res.entropy > 3000000
  /\ log[5] = "Entropy FAIL"
  /\ log[7] = "VALID (low confidence)"

=============================================================================
